---- MODULE Spec2Model ----
(***************************************************************************)
(* Model of the wildfire dispatch engine of backend/p1_models.py,          *)
(* backend/p1_resources.py and backend/p1_system.py: the resource pool,    *)
(* the incident queue and its ordering, the dispatch loop with its running *)
(* accounting and audit trail, and the report generator.                   *)
(*                                                                         *)
(* Python dicts are modelled as sequences of entries in insertion order.   *)
(* A configuration dict is a function whose domain is the set of keys it    *)
(* holds.  Costs are the integers the configuration gives (float() of an   *)
(* integer is exact).                                                      *)
(***************************************************************************)
EXTENDS Integers, Sequences, FiniteSets, TLC

(* ------------------------------ bounds -------------------------------- *)
MaxEvents == 2      \* incidents held by one system instance
MaxLog == 3         \* records of the audit trail of one instance

(* ------------------------- p1_models.Severity ------------------------- *)
None == "None"

Severity == <<"low", "medium", "high">>

SeverityValues == {Severity[k] : k \in 1..Len(Severity)}

priority(sev) ==
    CASE sev = "low" -> 1
      [] sev = "medium" -> 2
      [] sev = "high" -> 3

\* str.lower() on the severity tokens a row can carry
Tokens == {"low", "medium", "High", "extreme"}

lower(tok) == IF tok = "High" THEN "high" ELSE tok

\* Severity(value): the enum lookup raises ValueError for an unknown value
IsSeverity(v) == v \in SeverityValues

(* ---------------------- configuration dictionaries --------------------- *)
EmptyDict == [k \in {} |-> 0]

\* dict.get(key, default)
Get(config, key, default) == IF key \in DOMAIN config THEN config[key] ELSE default

Entry(n, c) == [name |-> n, config |-> c]

DEFAULT_RESOURCES ==
    << Entry("smoke_jumpers", [deployment_time_minutes |-> 30, cost |-> 5000, total_units |-> 5]),
       Entry("fire_engines", [deployment_time_minutes |-> 60, cost |-> 2000, total_units |-> 10]),
       Entry("helicopters", [deployment_time_minutes |-> 45, cost |-> 8000, total_units |-> 3]),
       Entry("tanker_planes", [deployment_time_minutes |-> 120, cost |-> 15000, total_units |-> 2]),
       Entry("ground_crews", [deployment_time_minutes |-> 90, cost |-> 3000, total_units |-> 8]) >>

default_damage_costs == [low |-> 50000, medium |-> 100000, high |-> 200000]

\* position of a key in an ordered dict, 0 when absent
IndexOf(d, n) ==
    IF \E k \in 1..Len(d) : d[k].name = n
    THEN CHOOSE k \in 1..Len(d) : d[k].name = n
    ELSE 0

\* d[n] = c on an ordered dict: an existing key keeps its place
SetItem(d, n, c) ==
    IF IndexOf(d, n) = 0 THEN Append(d, Entry(n, c))
    ELSE [d EXCEPT ![IndexOf(d, n)] = Entry(n, c)]

\* dict.update(other)
RECURSIVE Update(_, _)
Update(d, other) ==
    IF other = <<>> THEN d
    ELSE Update(SetItem(d, Head(other).name, Head(other).config), Tail(other))

(* ---------------------- p1_models.ResourceType ------------------------- *)
\* a field missing from the entry taken from the built-in kind of that name
from_dict_builtin_fallback(n, config) ==
    LET base == IF IndexOf(DEFAULT_RESOURCES, n) = 0 THEN EmptyDict
                ELSE DEFAULT_RESOURCES[IndexOf(DEFAULT_RESOURCES, n)].config
    IN [name |-> n,
        deployment_time |-> Get(config, "deployment_time_minutes",
                                Get(base, "deployment_time_minutes", 0)),
        cost |-> Get(config, "cost", Get(base, "cost", 0)),
        total_units |-> Get(config, "total_units", Get(base, "total_units", 0)),
        used_units |-> Get(config, "used_units", 0)]

from_dict(n, config) ==
    [name |-> n,
     deployment_time |-> Get(config, "deployment_time_minutes", 0),
     cost |-> Get(config, "cost", 0),
     total_units |-> Get(config, "total_units", 0),
     used_units |-> Get(config, "used_units", 0)]

available_units(resource) == resource.total_units - resource.used_units

(* ---------------------- p1_resources.ResourcePool ---------------------- *)
\* ResourcePool.__init__ reading the class attribute as it is: a copy of the
\* defaults, overridden and extended by the custom map
ResourcePoolFrom(defaults, custom_resources) ==
    LET resources_config ==
            IF custom_resources # <<>> THEN Update(defaults, custom_resources)
            ELSE defaults
    IN [k \in 1..Len(resources_config) |->
            from_dict(resources_config[k].name, resources_config[k].config)]

\* ResourcePool.__init__ in a process that has started
ResourcePool(custom_resources) == ResourcePoolFrom(DEFAULT_RESOURCES, custom_resources)

\* update() acting on the class attribute itself, without the copy
defaults_updated_in_place(defaults, custom_resources) ==
    IF custom_resources # <<>> THEN Update(defaults, custom_resources)
    ELSE defaults

\* the class attribute after __init__: update() acts on the copy
defaults_after_init(defaults, custom_resources) == defaults

\* self.resources[resource_name]
Lookup(pool, n) == pool[CHOOSE k \in 1..Len(pool) : pool[k].name = n]

\* sorted(..., key=cost) is stable: the place of an element is the number of
\* elements of smaller key, or of equal key and earlier position, plus one
Rank(s, k) ==
    Cardinality({ j \in 1..Len(s) :
                    \/ s[j].cost < s[k].cost
                    \/ s[j].cost = s[k].cost /\ j < k }) + 1

\* the candidates left in the order the pool lists them
InListedOrder(s) == s

SortedByCost(s) ==
    [p \in 1..Len(s) |-> s[CHOOSE k \in 1..Len(s) : Rank(s, k) = p]]

get_best_ignoring_availability(pool, severity) ==
    IF pool = <<>> THEN None ELSE SortedByCost(pool)[1].name

get_best_available_resource(pool, severity) ==
    LET available_resources == SelectSeq(pool, LAMBDA r : available_units(r) > 0)
    IN IF available_resources = <<>> THEN None
       ELSE SortedByCost(available_resources)[1].name

\* assign_resource: the returned flag and the pool after the call
assign_unguarded(pool, resource_name) ==
    LET k == CHOOSE j \in 1..Len(pool) : pool[j].name = resource_name
    IN [ok |-> TRUE,
        pool |-> [pool EXCEPT ![k].used_units = pool[k].used_units + 1]]

\* an assignment that takes the unit off total_units instead of counting it
\* in used_units
assign_shrinking(pool, resource_name) ==
    LET k == CHOOSE j \in 1..Len(pool) : pool[j].name = resource_name
    IN IF available_units(pool[k]) > 0
       THEN [ok |-> TRUE,
             pool |-> [pool EXCEPT ![k].total_units = pool[k].total_units - 1]]
       ELSE [ok |-> FALSE, pool |-> pool]

assign_resource(pool, resource_name) ==
    LET k == CHOOSE j \in 1..Len(pool) : pool[j].name = resource_name
    IN IF available_units(pool[k]) > 0
       THEN [ok |-> TRUE,
             pool |-> [pool EXCEPT ![k].used_units = pool[k].used_units + 1]]
       ELSE [ok |-> FALSE, pool |-> pool]

get_resource_status(pool) ==
    [k \in 1..Len(pool) |->
        [name |-> pool[k].name,
         total |-> pool[k].total_units,
         used |-> pool[k].used_units,
         available |-> available_units(pool[k])]]

(* ---------------------- p1_models.WildfireEvent ------------------------ *)
\* id is the arrival number of the row the incident was built from; the
\* program does not store it, it identifies the incident in the properties
WildfireEvent(ts, sev, n) ==
    [timestamp |-> ts, severity |-> sev, handled |-> FALSE,
     assigned_resource |-> None, id |-> n]

lt_timestamp_only(self, other) == self.timestamp < other.timestamp

lt_severity_ascending(self, other) ==
    IF self.timestamp # other.timestamp
    THEN self.timestamp < other.timestamp
    ELSE priority(self.severity) < priority(other.severity)

lt(self, other) ==
    IF self.timestamp # other.timestamp
    THEN self.timestamp < other.timestamp
    ELSE priority(self.severity) > priority(other.severity)

\* list.sort(): stable, an element goes before the first one it is less than
RECURSIVE Insert(_, _)
Insert(x, s) ==
    IF s = <<>> THEN <<x>>
    ELSE IF lt(x, Head(s)) THEN <<x>> \o s
    ELSE <<Head(s)>> \o Insert(x, Tail(s))

RECURSIVE sort(_)
sort(s) ==
    IF s = <<>> THEN <<>>
    ELSE Insert(s[Len(s)], sort(SubSeq(s, 1, Len(s) - 1)))

(* ------------------------------ inputs --------------------------------- *)
\* configurations a caller gives for a kind: {} leaves every field to its
\* default of zero, Spent has its one unit deployed already, Overused more
Spent == [cost |-> 300, total_units |-> 1, used_units |-> 1]

Overused == [cost |-> 200, total_units |-> 1, used_units |-> 2]

One(c) == [cost |-> c, total_units |-> 1]

Two(c) == [cost |-> c, total_units |-> 2]

\* a custom map that overrides the five built-in kinds
SmallPool(a, b) ==
    << Entry("smoke_jumpers", a), Entry("fire_engines", b),
       Entry("helicopters", Spent), Entry("tanker_planes", Spent),
       Entry("ground_crews", Spent) >>

\* a custom map that adds a kind and overrides one built-in kind in part
PartialMap ==
    << Entry("rapid_response_team",
             [deployment_time_minutes |-> 15, cost |-> 10000, total_units |-> 3]),
       Entry("fire_engines", [cost |-> 2500, total_units |-> 15]) >>

\* None and {} are both "no custom map"
CustomResourceChoices ==
    { <<>>,
      PartialMap,
      SmallPool(EmptyDict, Spent),          \* no capacity, a kind of zero units
      SmallPool(Overused, Spent),           \* no capacity
      SmallPool(One(200), Spent),           \* one unit in all
      SmallPool(EmptyDict, One(100)),       \* one unit, a kind of zero units
      SmallPool(One(200), One(100)),        \* the cheaper kind is the later one
      SmallPool(One(200), Two(200)),        \* equal costs
      SmallPool(Overused, Two(100)),
      SmallPool(One(-100), Spent) }         \* a cost below zero

CustomDamageChoices == { EmptyDict, [high |-> 300000] }

Timestamps == {1, 2}

Rows == [timestamp : Timestamps, severity : Tokens]

\* the rows of one file: one row, or two
Batches == { <<r>> : r \in Rows } \cup { <<r, q>> : r, q \in Rows }

(* ------------------ p1_system.WildfireResponseSystem ------------------- *)
VARIABLES
    enable_console_print,   \* constructor argument
    resources,              \* resource_pool.resources, in insertion order
    damage_costs,
    operational_costs,
    missed_response_costs,
    statistics,
    events,                 \* the incident queue
    event_log,              \* the audit trail
    output_dir,             \* contents of the files under output/
    pc,                     \* "idle", or "processing" inside process_events
    i,                      \* position of the process_events loop
    report,                 \* <<>> or <<the dict generate_report returned last>>
    last_error,             \* the exception the last call raised, None if it returned
    log_ev,                 \* history: id of the incident of each audit record
    start,                  \* history: pool and log length when the last
                            \* process_events call began, and whether one did
    load_failed,            \* history: the last load_data call raised
    init_resources,         \* history: the pool as constructed
    args,                   \* history: the arguments the instance was constructed with
    saves,                  \* history: snapshots this instance has written
    class_defaults,         \* ResourcePool.DEFAULT_RESOURCES, shared by the process
    served,                 \* the requests a server process has in hand and has
                            \* answered (used by RunsSpec)
    callers                 \* concurrent callers of assign_resource (used by
                            \* ConcurrentSpec)

vars == << enable_console_print, resources, damage_costs, operational_costs,
           missed_response_costs, statistics, events, event_log, output_dir,
           pc, i, report, last_error, log_ev, start, load_failed,
           init_resources, args, saves, class_defaults, served, callers >>

Zeroes == [s \in SeverityValues |-> 0]

\* no request has reached the process
NoRequests == [current |-> <<>>, first |-> <<>>, between |-> FALSE, again |-> FALSE]

\* nobody calls assign_resource from another thread
NoCallers == <<>>

\* the damage table of __init__: custom values for the severities present
DamageTable(custom_damage_costs) ==
    [s \in SeverityValues |->
        IF custom_damage_costs # EmptyDict /\ s \in DOMAIN custom_damage_costs
        THEN custom_damage_costs[s]
        ELSE default_damage_costs[s]]

\* the state WildfireResponseSystem.__init__ leaves in a process that has
\* constructed nothing before
Constructed(custom_resources, custom_damage_costs, print) ==
    /\ enable_console_print = print
    /\ resources = ResourcePool(custom_resources)
    /\ damage_costs = DamageTable(custom_damage_costs)
    /\ operational_costs = 0
    /\ missed_response_costs = 0
    /\ statistics = [addressed |-> Zeroes, missed |-> Zeroes]
    /\ events = <<>>
    /\ event_log = <<>>
    /\ output_dir = [event_log |-> <<>>, system_state |-> <<>>, final_report |-> <<>>]
    /\ pc = "idle"
    /\ i = 0
    /\ report = <<>>
    /\ last_error = None
    /\ log_ev = <<>>
    /\ start = [resources |-> ResourcePool(custom_resources), logged |-> 0,
                ran |-> FALSE]
    /\ load_failed = FALSE
    /\ init_resources = ResourcePool(custom_resources)
    /\ args = [custom_resources |-> custom_resources,
               custom_damage_costs |-> custom_damage_costs]
    /\ saves = 0
    /\ class_defaults = defaults_after_init(DEFAULT_RESOURCES, custom_resources)

Init ==
    \E custom_resources \in CustomResourceChoices,
       custom_damage_costs \in CustomDamageChoices,
       print \in BOOLEAN :
        /\ Constructed(custom_resources, custom_damage_costs, print)
        /\ served = NoRequests
        /\ callers = NoCallers

\* report_data["severity_report"] is the statistics dict itself, not a copy
Alias(rep, stats) ==
    IF rep = <<>> THEN <<>> ELSE << [rep[1] EXCEPT !.severity_report = stats] >>

(* ------------------------------ load_data ------------------------------ *)
\* the row loop: rows are appended one by one until a row whose severity
\* token is not a Severity value raises
RECURSIVE AppendRows(_, _)
AppendRows(evs, batch) ==
    IF batch = <<>> THEN [events |-> evs, raised |-> FALSE]
    ELSE IF ~IsSeverity(lower(Head(batch).severity))
         THEN [events |-> evs, raised |-> TRUE]
         ELSE AppendRows(Append(evs, WildfireEvent(Head(batch).timestamp,
                                                   lower(Head(batch).severity),
                                                   Len(evs) + 1)),
                         Tail(batch))

load_data(batch) ==
    /\ pc = "idle"
    /\ Len(events) + Len(batch) <= MaxEvents
    /\ LET r == AppendRows(events, batch)
       IN /\ events' = IF r.raised THEN r.events ELSE sort(r.events)
          /\ last_error' = IF r.raised THEN "ValueError" ELSE None
          /\ load_failed' = r.raised
    /\ UNCHANGED << enable_console_print, resources, damage_costs, operational_costs,
                    missed_response_costs, statistics, event_log, output_dir, pc, i,
                    report, log_ev, start, init_resources, args, saves, class_defaults,
                    served, callers >>

(* ---------------------------- process_events --------------------------- *)
\* ResourceType.to_dict for every kind of the pool
pool_to_dict(pool) ==
    [k \in 1..Len(pool) |->
        [name |-> pool[k].name,
         deployment_time_minutes |-> pool[k].deployment_time,
         cost |-> pool[k].cost,
         total_units |-> pool[k].total_units,
         used_units |-> pool[k].used_units,
         available_units |-> available_units(pool[k])]]

\* WildfireEvent.to_dict
event_to_dict(event) ==
    [timestamp |-> event.timestamp, severity |-> event.severity,
     handled |-> event.handled, assigned_resource |-> event.assigned_resource]

\* save_event_log and save_system_state, on the state after the decision
\* the two files written from the state before the decision
save_before_decision ==
    output_dir' =
        [output_dir EXCEPT
            !.event_log = << event_log >>,
            !.system_state =
                << [resources |-> pool_to_dict(resources),
                    events |-> [k \in 1..Len(events) |-> event_to_dict(events[k])],
                    damage_costs |-> damage_costs,
                    operational_costs |-> operational_costs,
                    missed_response_costs |-> missed_response_costs,
                    statistics |-> statistics] >>]

save_updates ==
    output_dir' =
        [output_dir EXCEPT
            !.event_log = << event_log' >>,
            !.system_state =
                << [resources |-> pool_to_dict(resources'),
                    events |-> [k \in 1..Len(events') |-> event_to_dict(events'[k])],
                    damage_costs |-> damage_costs,
                    operational_costs |-> operational_costs',
                    missed_response_costs |-> missed_response_costs',
                    statistics |-> statistics'] >>]

_handle_successful_response(k, resource_name) ==
    LET resource == Lookup(resources', resource_name)
        event == events[k]
    IN /\ events' = [events EXCEPT ![k].handled = TRUE,
                                   ![k].assigned_resource = resource_name]
       /\ statistics' = [statistics EXCEPT
                            !.addressed[event.severity] = @ + 1]
       /\ operational_costs' = operational_costs + resource.cost
       /\ event_log' = Append(event_log,
                              [timestamp |-> event.timestamp,
                               severity |-> event.severity,
                               response |-> "SUCCESS",
                               resource |-> resource.name,
                               cost |-> resource.cost])
       /\ UNCHANGED missed_response_costs

_handle_missed_default_damage(k) ==
    LET event == events[k]
        damage_cost == damage_costs[event.severity]
    IN /\ events' = [events EXCEPT ![k].handled = FALSE]
       /\ statistics' = [statistics EXCEPT
                            !.missed[event.severity] = @ + 1]
       /\ missed_response_costs' = missed_response_costs + default_damage_costs[event.severity]
       /\ event_log' = Append(event_log,
                              [timestamp |-> event.timestamp,
                               severity |-> event.severity,
                               response |-> "MISSED",
                               damage_cost |-> damage_cost])
       /\ UNCHANGED operational_costs

_handle_missed_overwrite(k) ==
    LET event == events[k]
        damage_cost == damage_costs[event.severity]
    IN /\ events' = [events EXCEPT ![k].handled = FALSE]
       /\ statistics' = [statistics EXCEPT
                            !.missed[event.severity] = @ + 1]
       /\ missed_response_costs' = damage_cost
       /\ event_log' = Append(event_log,
                              [timestamp |-> event.timestamp,
                               severity |-> event.severity,
                               response |-> "MISSED",
                               damage_cost |-> damage_cost])
       /\ UNCHANGED operational_costs

\* a missed response that starts the audit trail anew
_handle_missed_truncating(k) ==
    LET event == events[k]
        damage_cost == damage_costs[event.severity]
    IN /\ events' = [events EXCEPT ![k].handled = FALSE]
       /\ statistics' = [statistics EXCEPT
                            !.missed[event.severity] = @ + 1]
       /\ missed_response_costs' = missed_response_costs + damage_cost
       /\ event_log' = << [timestamp |-> event.timestamp,
                           severity |-> event.severity,
                           response |-> "MISSED",
                           damage_cost |-> damage_cost] >>
       /\ UNCHANGED operational_costs

_handle_missed_response(k) ==
    LET event == events[k]
        damage_cost == damage_costs[event.severity]
    IN /\ events' = [events EXCEPT ![k].handled = FALSE]
       /\ statistics' = [statistics EXCEPT
                            !.missed[event.severity] = @ + 1]
       /\ missed_response_costs' = missed_response_costs + damage_cost
       /\ event_log' = Append(event_log,
                              [timestamp |-> event.timestamp,
                               severity |-> event.severity,
                               response |-> "MISSED",
                               damage_cost |-> damage_cost])
       /\ UNCHANGED operational_costs

_handle_event(k, resource_name) ==
    IF resource_name # None /\ assign_resource(resources, resource_name).ok
    THEN /\ resources' = assign_resource(resources, resource_name).pool
         /\ _handle_successful_response(k, resource_name)
    ELSE /\ resources' = resources
         /\ _handle_missed_response(k)

\* entry of process_events: the loop starts at the head of the queue
process_events_begin ==
    /\ pc = "idle"
    /\ Len(event_log) + Len(events) <= MaxLog
    /\ pc' = "processing"
    /\ i' = 1
    /\ start' = [resources |-> resources, logged |-> Len(event_log), ran |-> TRUE]
    /\ UNCHANGED << enable_console_print, resources, damage_costs, operational_costs,
                    missed_response_costs, statistics, events, event_log, output_dir,
                    report, last_error, log_ev, load_failed, init_resources, args, saves, class_defaults,
                    served, callers >>

\* one iteration of the loop: select, decide, save
process_events_step ==
    /\ pc = "processing"
    /\ i <= Len(events)
    /\ LET resource_name == get_best_available_resource(resources, events[i].severity)
       IN _handle_event(i, resource_name)
    /\ save_updates
    /\ saves' = saves + 1
    /\ report' = Alias(report, statistics')
    /\ log_ev' = Append(log_ev, events[i].id)
    /\ i' = i + 1
    /\ UNCHANGED << enable_console_print, damage_costs, pc, last_error, start,
                    load_failed, init_resources, args, class_defaults, served,
                    callers >>

\* the loop is exhausted and process_events returns
process_events_end ==
    /\ pc = "processing"
    /\ i > Len(events)
    /\ pc' = "idle"
    /\ last_error' = None
    /\ UNCHANGED << enable_console_print, resources, damage_costs, operational_costs,
                    missed_response_costs, statistics, events, event_log, output_dir,
                    i, report, log_ev, start, load_failed, init_resources, args, saves, class_defaults,
                    served, callers >>

(* ---------------------------- generate_report -------------------------- *)
RECURSIVE Sum(_, _)
Sum(f, S) ==
    IF S = {} THEN 0
    ELSE LET x == CHOOSE y \in S : TRUE IN f[x] + Sum(f, S \ {x})

\* a / b as the fraction it is
Ratio(a, b) == [num |-> a, den |-> b]

\* _print_resource_utilization computes used / total for every kind
UtilizationRaises(pool) ==
    \E k \in 1..Len(pool) : get_resource_status(pool)[k].total = 0

_generate_report_data(total_addressed, total_missed) ==
    [total_events |-> total_addressed + total_missed,
     fires_addressed |-> total_addressed,
     fires_missed |-> total_missed,
     operational_costs |-> operational_costs,
     damage_costs |-> missed_response_costs,
     severity_report |-> statistics,
     resource_utilization |-> get_resource_status(resources),
     efficiency_metrics |->
        [avg_cost_per_response |->
            IF total_addressed > 0 THEN Ratio(operational_costs, total_addressed)
            ELSE Ratio(0, 1)]]

generate_report ==
    /\ pc = "idle"
    /\ LET total_addressed == Sum(statistics.addressed, SeverityValues)
           total_missed == Sum(statistics.missed, SeverityValues)
       IN IF enable_console_print /\ UtilizationRaises(resources)
          THEN \* ZeroDivisionError leaves _print_summary_report
               /\ last_error' = "ZeroDivisionError"
               /\ UNCHANGED << report, output_dir >>
          ELSE /\ report' = << _generate_report_data(total_addressed, total_missed) >>
               /\ output_dir' = [output_dir EXCEPT
                                    !.final_report = << _generate_report_data(total_addressed, total_missed) >>]
               /\ last_error' = None
    /\ UNCHANGED << enable_console_print, resources, damage_costs, operational_costs,
                    missed_response_costs, statistics, events, event_log, pc, i,
                    log_ev, start, load_failed, init_resources, args, saves, class_defaults,
                    served, callers >>

(* ---------------------------- specification ---------------------------- *)
\* the calls a caller can make on a system instance, in any order
Next ==
    \/ \E batch \in Batches : load_data(batch)
    \/ process_events_begin
    \/ process_events_step
    \/ process_events_end
    \/ generate_report

Spec == Init /\ [][Next]_vars

\* the dispatch engine alone: loading and processing, no report is asked for
DispatchNext ==
    \/ \E batch \in Batches : load_data(batch)
    \/ process_events_begin
    \/ process_events_step
    \/ process_events_end

DispatchSpec == Init /\ [][DispatchNext]_vars

\* process_events is a loop of one thread: once entered it takes its next
\* step for as long as it has one
FairSpec ==
    /\ Init /\ [][DispatchNext]_vars
    /\ WF_vars(process_events_step)
    /\ WF_vars(process_events_end)

(* ------------- ResourcePool.assign_resource, concurrent callers -------- *)
\* the threads that share one pool
Callers == {"a", "b"}

\* a thread has entered assign_resource and run the test of line 68: it goes
\* on to the increment, or returns False
assign_resource_check(t, resource_name) ==
    /\ callers[t].at = "call"
    /\ \E k \in 1..Len(resources) : resources[k].name = resource_name
    /\ callers' = [callers EXCEPT ![t] =
            IF available_units(Lookup(resources, resource_name)) > 0
            THEN [at |-> "increment", resource_name |-> resource_name, returned |-> <<>>]
            ELSE [at |-> "done", resource_name |-> resource_name,
                  returned |-> <<FALSE>>]]
    /\ UNCHANGED << enable_console_print, resources, damage_costs,
                    operational_costs, missed_response_costs, statistics,
                    events, event_log, output_dir, pc, i, report, last_error,
                    log_ev, start, load_failed, init_resources, args, saves,
                    class_defaults, served >>

\* the thread runs line 69 and returns True
assign_resource_increment(t) ==
    /\ callers[t].at = "increment"
    /\ LET k == CHOOSE j \in 1..Len(resources) :
                    resources[j].name = callers[t].resource_name
       IN resources' = [resources EXCEPT ![k].used_units = @ + 1]
    /\ callers' = [callers EXCEPT ![t].at = "done", ![t].returned = <<TRUE>>]
    /\ UNCHANGED << enable_console_print, damage_costs,
                    operational_costs, missed_response_costs, statistics,
                    events, event_log, output_dir, pc, i, report, last_error,
                    log_ev, start, load_failed, init_resources, args, saves,
                    class_defaults, served >>

\* a constructed system whose pool two threads are about to call
ConcurrentInit ==
    \E custom_resources \in CustomResourceChoices,
       custom_damage_costs \in CustomDamageChoices,
       print \in BOOLEAN :
        /\ Constructed(custom_resources, custom_damage_costs, print)
        /\ served = NoRequests
        /\ callers = [t \in Callers |->
                        [at |-> "call", resource_name |-> None, returned |-> <<>>]]

\* the statements of the callers, interleaved in any order
ConcurrentNext ==
    \E t \in Callers :
        \/ \E k \in 1..Len(resources) : assign_resource_check(t, resources[k].name)
        \/ assign_resource_increment(t)

ConcurrentSpec == ConcurrentInit /\ [][ConcurrentNext]_vars

(* ----------------------- app.get_final_report -------------------------- *)
\* the rawData of a request: rows that carry one timestamp
RunBatches == { b \in Batches : \A r \in 1..Len(b) : b[r].timestamp = 1 }

\* the JSON bodies posted to /api/p1/get_final_report
Requests ==
    [rawData : RunBatches,
     customResources : {<<>>, SmallPool(One(200), One(100)),
                        SmallPool(EmptyDict, One(100))},
     customDamageCosts : CustomDamageChoices]

\* the handler has run to its return, or load_data has raised out of it
Answerable ==
    /\ served.current # <<>> /\ pc = "idle"
    /\ (load_failed \/ report # <<>>)

\* what the client receives: jsonify(final_report), or the error page
Response ==
    IF load_failed THEN [status |-> 500, body |-> <<>>]
    ELSE [status |-> 200, body |-> report]

\* the handler constructs a system of its own for the request
get_final_report_begin(req) ==
    /\ served.current = <<>> /\ pc = "idle"
    /\ served.first # <<>> /\ ~served.again
    /\ enable_console_print' = FALSE
    /\ resources' = ResourcePoolFrom(class_defaults, req.customResources)
    /\ damage_costs' = DamageTable(req.customDamageCosts)
    /\ operational_costs' = 0
    /\ missed_response_costs' = 0
    /\ statistics' = [addressed |-> Zeroes, missed |-> Zeroes]
    /\ events' = <<>>
    /\ event_log' = <<>>
    /\ i' = 0
    /\ report' = <<>>
    /\ last_error' = None
    /\ log_ev' = <<>>
    /\ start' = [resources |-> resources', logged |-> 0, ran |-> FALSE]
    /\ load_failed' = FALSE
    /\ init_resources' = resources'
    /\ args' = [custom_resources |-> req.customResources,
                custom_damage_costs |-> req.customDamageCosts]
    /\ saves' = 0
    /\ class_defaults' = defaults_after_init(class_defaults, req.customResources)
    /\ served' = [served EXCEPT !.current = <<req>>,
                                !.between = served.between \/ req # served.first[1].request,
                                !.again = req = served.first[1].request]
    /\ UNCHANGED << output_dir, pc, callers >>

\* the handler returns; the instance is dropped with it
get_final_report_end ==
    /\ Answerable
    /\ served' = [served EXCEPT
                    !.current = <<>>,
                    !.first = IF served.first = <<>>
                              THEN << [request |-> served.current[1],
                                       response |-> Response,
                                       event_log |-> event_log] >>
                              ELSE served.first]
    /\ UNCHANGED << enable_console_print, resources, damage_costs,
                    operational_costs, missed_response_costs, statistics,
                    events, event_log, output_dir, pc, i, report, last_error,
                    log_ev, start, load_failed, init_resources, args, saves,
                    class_defaults, callers >>

\* a server process whose first request has just constructed its system
RunsInit ==
    \E req \in Requests :
        /\ Constructed(req.customResources, req.customDamageCosts, FALSE)
        /\ served = [NoRequests EXCEPT !.current = <<req>>]
        /\ callers = NoCallers

\* one request after the other, each through load_data, process_events and
\* generate_report in the handler's order
RunsNext ==
    \/ \E req \in Requests :
        /\ served.between => req = served.first[1].request
        /\ get_final_report_begin(req)
    \/ /\ served.current # <<>> /\ events = <<>> /\ ~load_failed /\ ~start.ran
       /\ load_data(served.current[1].rawData)
    \/ /\ served.current # <<>> /\ events # <<>> /\ ~load_failed /\ ~start.ran
       /\ process_events_begin
    \/ process_events_step
    \/ process_events_end
    \/ /\ served.current # <<>> /\ start.ran /\ report = <<>>
       /\ generate_report
    \/ get_final_report_end

RunsSpec == RunsInit /\ [][RunsNext]_vars

\* the JSON bodies of a client that posts its rows in any order
PermRequests ==
    [rawData : Batches,
     customResources : {<<>>, SmallPool(One(200), Spent),
                        SmallPool(EmptyDict, One(100))},
     customDamageCosts : CustomDamageChoices]

\* two bodies with equal configuration whose rows are the same incidents,
\* in whatever order
SameIncidents(req, other) ==
    /\ req.customResources = other.customResources
    /\ req.customDamageCosts = other.customDamageCosts
    /\ Len(req.rawData) = Len(other.rawData)
    /\ \A row \in Rows :
        Cardinality({k \in 1..Len(req.rawData) : req.rawData[k] = row}) =
        Cardinality({k \in 1..Len(other.rawData) : other.rawData[k] = row})

PermInit ==
    \E req \in PermRequests :
        /\ Constructed(req.customResources, req.customDamageCosts, FALSE)
        /\ served = [NoRequests EXCEPT !.current = <<req>>]
        /\ callers = NoCallers

\* a request, then the same incidents posted again in some order
PermNext ==
    \/ \E req \in PermRequests :
        /\ served.first # <<>> /\ ~served.between
        /\ SameIncidents(req, served.first[1].request)
        /\ get_final_report_begin(req)
    \/ /\ served.current # <<>> /\ events = <<>> /\ ~load_failed /\ ~start.ran
       /\ load_data(served.current[1].rawData)
    \/ /\ served.current # <<>> /\ events # <<>> /\ ~load_failed /\ ~start.ran
       /\ process_events_begin
    \/ process_events_step
    \/ process_events_end
    \/ /\ served.current # <<>> /\ start.ran /\ report = <<>>
       /\ generate_report
    \/ get_final_report_end

PermSpec == PermInit /\ [][PermNext]_vars

(* ------------------------------ properties ----------------------------- *)
Kinds == 1..Len(resources)

Queue == 1..Len(events)

Records == 1..Len(event_log)

\* the records written by the process_events call that is running, or ran last
PassRecords == (start.logged + 1)..Len(event_log)

\* the loop of process_events has gone through the whole queue
PassComplete == pc = "processing" /\ i > Len(events)

SumOver(S, F(_)) == Sum([x \in S |-> F(x)], S)

HasCapacity(pool) == \E k \in 1..Len(pool) : available_units(pool[k]) > 0

\* units that can still be committed
Capacity(pool) ==
    LET free(k) == IF available_units(pool[k]) > 0 THEN available_units(pool[k]) ELSE 0
    IN SumOver(1..Len(pool), free)

SuccessRecords(n) ==
    {k \in Records : log_ev[k] = n /\ event_log[k].response = "SUCCESS"}

\* C1: every resource kind has 0 <= used_units <= total_units in every
\* state, whatever configuration map the pool was built from.
C1_CapacityInvariant ==
    \A k \in Kinds :
        /\ 0 <= resources[k].used_units
        /\ resources[k].used_units <= resources[k].total_units

\* C2: operational_costs is the sum of the costs of the SUCCESS records,
\* missed_response_costs the sum of the damage costs of the MISSED records,
\* and each MISSED record's damage cost is the configured constant of its
\* severity; in every state, between two incidents as well as after a run.
C2_AccountingIdentity ==
    LET cost(k) == IF event_log[k].response = "SUCCESS" THEN event_log[k].cost ELSE 0
        damage(k) == IF event_log[k].response = "MISSED" THEN event_log[k].damage_cost ELSE 0
    IN /\ operational_costs = SumOver(Records, cost)
       /\ missed_response_costs = SumOver(Records, damage)
       /\ \A k \in Records :
            event_log[k].response = "MISSED"
                => event_log[k].damage_cost = damage_costs[event_log[k].severity]

C2_Witness ==
    /\ damage_costs # default_damage_costs
    /\ \E k \in Records : event_log[k].response = "SUCCESS"
    /\ \E k \in Records : event_log[k].response = "MISSED" /\ event_log[k].severity = "high"

\* C3: for every incident, handled holds exactly when assigned_resource is
\* set, and exactly when a SUCCESS record was written for the incident.
C3_OutcomeConsistency ==
    \A k \in Queue :
        /\ events[k].handled <=> events[k].assigned_resource # None
        /\ events[k].handled <=> SuccessRecords(events[k].id) # {}

\* C4: when every row of the loaded files was an incident, process_events
\* decides the incidents by timestamp ascending, at equal timestamps the
\* higher severity first, and at equal timestamp and severity in input order.
C4_QueueOrdering ==
    (pc = "processing" /\ ~load_failed) =>
        /\ \A k \in PassRecords : log_ev[k] = events[k - start.logged].id
        /\ \A p, q \in PassRecords :
            p < q =>
                /\ event_log[p].timestamp <= event_log[q].timestamp
                /\ event_log[p].timestamp = event_log[q].timestamp
                    => priority(event_log[p].severity) >= priority(event_log[q].severity)
                /\ (/\ event_log[p].timestamp = event_log[q].timestamp
                    /\ event_log[p].severity = event_log[q].severity)
                    => log_ev[p] < log_ev[q]

\* two incidents of one timestamp, the later arrival of higher severity, decided
C4_Witness ==
    /\ PassComplete /\ ~load_failed
    /\ Len(events) = 2
    /\ events[1].timestamp = events[2].timestamp
    /\ events[1].id = 2
    /\ priority(events[1].severity) > priority(events[2].severity)
    /\ Len(event_log) = start.logged + 2

\* C5: in every pool state and for every severity, the selected kind has an
\* available unit and the least cost among the kinds that have one, it is
\* the first such kind in insertion order, None is returned exactly when no
\* kind has an available unit, and the severity makes no difference.
C5_CandidateSelection ==
    \A sev \in SeverityValues :
        LET best == get_best_available_resource(resources, sev)
            Avail == {k \in Kinds : available_units(resources[k]) > 0}
        IN /\ best = None <=> Avail = {}
           /\ best # None =>
                \E k \in Avail :
                    /\ resources[k].name = best
                    /\ \A j \in Avail :
                        /\ resources[k].cost <= resources[j].cost
                        /\ resources[j].cost = resources[k].cost => k <= j
           /\ best = get_best_available_resource(resources, "low")

\* the first incident went to the earlier of two kinds of equal cost while a
\* kind without available units was passed over
C5_Witness ==
    /\ Len(event_log) >= 1
    /\ event_log[1].response = "SUCCESS"
    /\ \E k, j \in Kinds :
        /\ k < j
        /\ resources[k].name = event_log[1].resource
        /\ resources[j].cost = resources[k].cost
        /\ available_units(resources[j]) > 0
    /\ \E k \in Kinds : available_units(resources[k]) <= 0

\* C6: in every pool state and for every kind, assign_resource returns True
\* and adds one to used_units of that kind when it has an available unit,
\* returns False and changes nothing otherwise, and never touches another kind.
C6_CommitContract ==
    \A k \in Kinds :
        LET r == assign_resource(resources, resources[k].name)
        IN /\ Len(r.pool) = Len(resources)
           /\ \A j \in Kinds \ {k} : r.pool[j] = resources[j]
           /\ IF available_units(resources[k]) > 0
              THEN /\ r.ok
                   /\ r.pool[k] = [resources[k] EXCEPT !.used_units = resources[k].used_units + 1]
              ELSE /\ ~r.ok
                   /\ r.pool = resources

\* a unit was committed, and the pool holds a kind that has units left and a
\* kind that has none
C6_Witness ==
    /\ resources # init_resources
    /\ \E k \in Kinds : available_units(resources[k]) > 0
    /\ \E k \in Kinds : available_units(resources[k]) = 0
    /\ \E k \in Kinds : available_units(resources[k]) < 0

\* C7: when process_events has gone through a queue of incidents, of two
\* incidents of one timestamp the one of lower severity is assigned only if
\* the one of higher severity is; with one unit in the pool and a LOW and
\* then a HIGH incident of one timestamp, HIGH is decided first and
\* assigned, LOW is missed.
C7_SeverityWins ==
    (PassComplete /\ ~load_failed) =>
        /\ \A a, b \in Queue :
            (/\ events[a].timestamp = events[b].timestamp
             /\ priority(events[a].severity) > priority(events[b].severity)
             /\ events[b].handled)
                => events[a].handled
        /\ (/\ start.logged = 0
            /\ Capacity(start.resources) = 1
            /\ Len(events) = 2
            /\ events[1].timestamp = events[2].timestamp
            /\ \E a, b \in Queue :
                /\ events[a].id = 1 /\ events[a].severity = "low"
                /\ events[b].id = 2 /\ events[b].severity = "high")
                => /\ events[1].severity = "high" /\ events[1].handled
                   /\ events[2].severity = "low" /\ ~events[2].handled
                   /\ event_log[1].response = "SUCCESS"
                   /\ event_log[2].response = "MISSED"

\* Scenario A has run
C7_Witness ==
    /\ PassComplete /\ ~load_failed
    /\ start.logged = 0
    /\ Capacity(start.resources) = 1
    /\ Len(events) = 2
    /\ events[1].timestamp = events[2].timestamp
    /\ events[1].id = 2 /\ events[1].severity = "high" /\ events[1].handled
    /\ events[2].id = 1 /\ events[2].severity = "low" /\ ~events[2].handled

C9_EmptyRun ==
    (start.ran /\ pc = "idle" /\ events = <<>> /\ event_log = <<>>) =>
        /\ last_error # "ZeroDivisionError"
        /\ report # <<>> =>
            /\ report[1].total_events = 0
            /\ report[1].fires_addressed = 0
            /\ report[1].fires_missed = 0
            /\ report[1].operational_costs = 0
            /\ report[1].damage_costs = 0
            /\ report[1].efficiency_metrics.avg_cost_per_response.num = 0
            /\ resources = init_resources

\* C10: every incident is decided once: no incident has more than one record
\* in the audit trail, whatever calls are made on the system.
C10_DecidedOnce ==
    \A k \in Queue :
        Cardinality({r \in Records : log_ev[r] = events[k].id}) <= 1

\* a step in which load_data raised ValueError to its caller
LoadRaised ==
    /\ pc = "idle" /\ pc' = "idle"
    /\ load_failed' /\ last_error' = "ValueError"
    /\ report' = report /\ output_dir' = output_dir

\* C11: a load that fails on a severity token outside low, medium and high
\* leaves the system as it was before the call: no record of the batch is in
\* the queue, and nothing is dispatched, logged or accounted.
C11_FailFastLoad ==
    [][LoadRaised =>
        /\ events' = events
        /\ resources' = resources /\ event_log' = event_log
        /\ operational_costs' = operational_costs
        /\ missed_response_costs' = missed_response_costs
        /\ statistics' = statistics]_vars

\* C12: a run on given inputs gives the same answer whether its process is
\* new or has served other requests before: nothing carries over from one
\* instance to the next.
C12_RunIsolation ==
    (/\ Answerable /\ served.first # <<>>
     /\ served.current[1] = served.first[1].request) =>
        Response = served.first[1].response

C12_Witness ==
    /\ Answerable /\ served.again /\ served.between
    /\ served.current[1].customResources = <<>>
    /\ Response.status = 200
    /\ operational_costs > 0 /\ missed_response_costs = 0
    /\ Len(event_log) = 2

\* the names of an ordered dict
Names(d) == { d[k].name : k \in 1..Len(d) }

\* C13: after construction the pool holds every built-in kind whose name is
\* absent from the custom map with its built-in values, and every custom
\* entry with that entry's fields, a missing field being 0; it holds nothing
\* else. The damage table holds the custom value of every severity the custom
\* table has and the default of every other.
C13_ConfigurationMerge ==
    LET custom == args.custom_resources
        table == args.custom_damage_costs
        Field(config, f) == IF f \in DOMAIN config THEN config[f] ELSE 0
        Kind(e) == [name |-> e.name,
                    deployment_time |-> Field(e.config, "deployment_time_minutes"),
                    cost |-> Field(e.config, "cost"),
                    total_units |-> Field(e.config, "total_units"),
                    used_units |-> Field(e.config, "used_units")]
    IN /\ \A k \in 1..Len(DEFAULT_RESOURCES) :
            DEFAULT_RESOURCES[k].name \notin Names(custom) =>
                \E r \in 1..Len(init_resources) :
                    init_resources[r] = Kind(DEFAULT_RESOURCES[k])
       /\ \A k \in 1..Len(custom) :
            \E r \in 1..Len(init_resources) : init_resources[r] = Kind(custom[k])
       /\ Names(init_resources) = Names(DEFAULT_RESOURCES) \cup Names(custom)
       /\ Len(init_resources) = Cardinality(Names(init_resources))
       /\ \A s \in SeverityValues :
            damage_costs[s] = IF s \in DOMAIN table THEN table[s]
                              ELSE default_damage_costs[s]

C13_Witness ==
    /\ \E n \in Names(args.custom_resources) : n \notin Names(DEFAULT_RESOURCES)
    /\ \E n \in Names(DEFAULT_RESOURCES) : n \notin Names(args.custom_resources)
    /\ \E k \in 1..Len(args.custom_resources) :
        /\ args.custom_resources[k].name \in Names(DEFAULT_RESOURCES)
        /\ "deployment_time_minutes" \notin DOMAIN args.custom_resources[k].config
    /\ DOMAIN args.custom_damage_costs = {"high"}
    /\ resources = init_resources /\ ~start.ran

\* C14: operational_costs, missed_response_costs and every statistics counter
\* start at 0 and never decrease from one state of a run to the next, for
\* every configuration the constructor accepts.
C14_MonotoneAccounting ==
    /\ operational_costs = 0 /\ missed_response_costs = 0
    /\ statistics = [addressed |-> Zeroes, missed |-> Zeroes]
    /\ [][/\ operational_costs' >= operational_costs
          /\ missed_response_costs' >= missed_response_costs
          /\ \A s \in SeverityValues :
               /\ statistics'.addressed[s] >= statistics.addressed[s]
               /\ statistics'.missed[s] >= statistics.missed[s]]_vars

\* a step that is a call of generate_report
ReportCall ==
    /\ pc = "idle" /\ pc' = "idle"
    /\ events' = events /\ last_error' # "ValueError"

\* what the call has returned agrees with the accounting of the system
ReportAgrees ==
    LET r == report'[1]
    IN /\ r.total_events = r.fires_addressed + r.fires_missed
       /\ r.fires_addressed = SumOver(SeverityValues, LAMBDA s : statistics'.addressed[s])
       /\ r.fires_missed = SumOver(SeverityValues, LAMBDA s : statistics'.missed[s])
       /\ r.total_events = Len(event_log')
       /\ r.operational_costs = operational_costs'
       /\ r.damage_costs = missed_response_costs'
       /\ r.efficiency_metrics.avg_cost_per_response =
            IF r.fires_addressed > 0
            THEN Ratio(operational_costs', r.fires_addressed)
            ELSE Ratio(0, 1)

\* C15: on every system that process_events has run on, generate_report
\* returns a report whose total_events is fires_addressed + fires_missed and
\* the length of the audit trail, whose two cost totals are the running ones,
\* and whose average is operational_costs / fires_addressed, or 0 when no
\* incident was addressed.
C15_ReportContent ==
    [][(ReportCall /\ start.ran) =>
        /\ last_error' = None /\ report' # <<>>
        /\ ReportAgrees]_vars

\* the same, for the calls that return
ReportAgreesWhenReturned ==
    [][(ReportCall /\ start.ran /\ last_error' = None) =>
        (report' # <<>> /\ ReportAgrees)]_vars

\* C16: generate_report leaves the pool, the incidents, the audit trail, the
\* costs and the statistics as they are, two calls in a row return equal
\* reports, and a report that has been returned is not changed by anything
\* done on the system afterwards.
C16_ReportPurity ==
    /\ [][ReportCall =>
            /\ resources' = resources /\ events' = events
            /\ event_log' = event_log
            /\ operational_costs' = operational_costs
            /\ missed_response_costs' = missed_response_costs
            /\ statistics' = statistics]_vars
    /\ [][(report # <<>> /\ ~ReportCall) => report' = report]_vars

\* the part of C16 that is about the call itself
ReportCallIsPure ==
    [][ReportCall =>
        /\ resources' = resources /\ events' = events
        /\ event_log' = event_log
        /\ operational_costs' = operational_costs
        /\ missed_response_costs' = missed_response_costs
        /\ statistics' = statistics]_vars

\* C17: process_events followed by generate_report raises nothing when no
\* kind has a unit available (kinds of zero total units included), when no
\* incident was addressed and when there is no incident, with console
\* printing on as well as off.
C17_NotAnError ==
    (/\ start.ran /\ pc = "idle" /\ ~load_failed
     /\ \/ ~HasCapacity(resources)
        \/ \A s \in SeverityValues : statistics.addressed[s] = 0
        \/ events = <<>>) =>
        last_error = None

\* the incident at position k has one record in the audit trail
Resolved(k) == Cardinality({r \in Records : log_ev[r] = events[k].id}) = 1

\* C18: process_events terminates, and when it has terminated every incident
\* of the queue is resolved: it has exactly one record in the audit trail,
\* none is left pending.
C18_EventualResolution ==
    (pc = "processing") ~> (pc = "idle" /\ \A k \in Queue : Resolved(k))

\* the part of C18 that is about termination: every call of process_events
\* returns, having written one record for every incident of the queue
ProcessEventsTerminates ==
    (pc = "processing") ~>
        (/\ pc = "idle"
         /\ Len(event_log) = start.logged + Len(events)
         /\ \A k \in Queue : log_ev[start.logged + k] = events[k].id)

\* the callers to which assign_resource has returned True for kind k
Granted(k) ==
    { t \in DOMAIN callers :
        callers[t].resource_name = resources[k].name /\ callers[t].returned = <<TRUE>> }

\* C19: with two callers of assign_resource on one pool, their statements
\* interleaved, no kind that was within its total gets used_units above
\* total_units, and the calls that return True for a kind are no more than
\* the units it had available.
C19_AtomicCommit ==
    \A k \in Kinds :
        init_resources[k].used_units <= init_resources[k].total_units =>
            /\ resources[k].used_units <= resources[k].total_units
            /\ Cardinality(Granted(k)) <= available_units(init_resources[k])

FirstCallResolvesOnce ==
    (PassComplete /\ start.logged = 0) => \A k \in Queue : Resolved(k)

\* a record of the audit trail has one of the two shapes
WellTagged(rec) ==
    \/ /\ rec.response = "SUCCESS"
       /\ DOMAIN rec = {"timestamp", "severity", "response", "resource", "cost"}
    \/ /\ rec.response = "MISSED"
       /\ DOMAIN rec = {"timestamp", "severity", "response", "damage_cost"}

\* C21: processing one incident appends exactly one record to the audit
\* trail, tagged SUCCESS with resource and cost or MISSED with damage cost,
\* and no operation removes or rewrites a record: the trail before a step is
\* a prefix of the trail after it.
C21_AppendOnly ==
    [][/\ Len(event_log') >= Len(event_log)
       /\ SubSeq(event_log', 1, Len(event_log)) = event_log
       /\ (pc = "processing" /\ i' = i + 1) =>
            /\ Len(event_log') = Len(event_log) + 1
            /\ WellTagged(event_log'[Len(event_log')])
       /\ ~(pc = "processing" /\ i' = i + 1) => event_log' = event_log]_vars

C21_Witness ==
    /\ Len(event_log) = 3
    /\ event_log[1].response = "SUCCESS"
    /\ event_log[2].response = "MISSED"
    /\ event_log[3].response = "MISSED"

\* C22: along a run used_units of every kind never decreases and
\* available_units never increases, total_units, cost and name of every kind
\* stay as constructed, and no kind is added to or removed from the pool.
C22_MonotoneCapacity ==
    [][/\ Len(resources') = Len(resources)
       /\ \A k \in Kinds :
            /\ resources'[k].name = resources[k].name
            /\ resources'[k].total_units = resources[k].total_units
            /\ resources'[k].cost = resources[k].cost
            /\ resources'[k].deployment_time = resources[k].deployment_time
            /\ resources'[k].used_units >= resources[k].used_units
            /\ available_units(resources'[k]) <= available_units(resources[k])]_vars

C22_Witness ==
    /\ PassComplete /\ Len(event_log) = 2
    /\ \E k \in Kinds :
        /\ resources[k].used_units = init_resources[k].used_units + 2
        /\ available_units(resources[k]) = 0
    /\ \A k \in Kinds :
        /\ resources[k].total_units = init_resources[k].total_units
        /\ resources[k].cost = init_resources[k].cost

\* C23: the same incidents under the same configuration, loaded in any order
\* of the input, give the same final report and the same sequence of audit
\* records.
C23_OrderIndependence ==
    (/\ Answerable /\ served.first # <<>>
     /\ SameIncidents(served.current[1], served.first[1].request)) =>
        /\ Response = served.first[1].response
        /\ event_log = served.first[1].event_log

C23_Witness ==
    /\ Answerable /\ served.first # <<>>
    /\ SameIncidents(served.current[1], served.first[1].request)
    /\ served.current[1].rawData # served.first[1].request.rawData
    /\ served.current[1].rawData[1].timestamp < served.current[1].rawData[2].timestamp
    /\ Response.status = 200
    /\ event_log[1].response = "SUCCESS" /\ event_log[2].response = "MISSED"
    /\ event_log[1].severity # event_log[2].severity

\* the units of a pool that are not committed, over all kinds
TotalAvailable(pool) ==
    SumOver(1..Len(pool), LAMBDA k : available_units(pool[k]))

\* C24: in one call of process_events on a pool in which no kind has
\* available_units below 0, an incident is MISSED only when no kind has a
\* unit left, so every incident after a MISSED one is MISSED; the number of
\* assigned incidents is the smaller of the number of incidents decided and
\* the units available at the start, and is the total increase of
\* used_units.
C24_PrefixOutcome ==
    (/\ pc = "processing"
     /\ \A k \in 1..Len(start.resources) :
            available_units(start.resources[k]) >= 0) =>
        LET assigned == {r \in PassRecords : event_log[r].response = "SUCCESS"}
            units == TotalAvailable(start.resources)
            decided == Len(event_log) - start.logged
        IN /\ decided = i - 1
           /\ Cardinality(assigned) = IF decided < units THEN decided ELSE units
           /\ Cardinality(assigned) =
                SumOver(Kinds, LAMBDA k : resources[k].used_units
                                            - start.resources[k].used_units)
           /\ \A r \in PassRecords \ assigned :
                /\ Cardinality({q \in assigned : q < r}) = units
                /\ \A q \in PassRecords : q > r => q \notin assigned

C24_Witness ==
    /\ PassComplete /\ Len(events) = 2
    /\ \A k \in 1..Len(start.resources) : available_units(start.resources[k]) >= 0
    /\ TotalAvailable(start.resources) = 1
    /\ event_log[Len(event_log) - 1].response = "SUCCESS"
    /\ event_log[Len(event_log)].response = "MISSED"

\* the records of assignments, in the order they were written
Assignments == {r \in Records : event_log[r].response = "SUCCESS"}

\* the units kind k of the constructed pool had left when record r was
\* written: what it had at construction, less the assignments before r
LeftBefore(k, r) ==
    available_units(init_resources[k])
        - Cardinality({q \in Assignments :
                        q < r /\ event_log[q].resource = init_resources[k].name})

\* the totals that n units of the kinds j, j+1, ... of a pool can cost
RECURSIVE Totals(_, _, _)
Totals(pool, j, n) ==
    IF j > Len(pool) THEN (IF n = 0 THEN {0} ELSE {})
    ELSE LET free == IF available_units(pool[j]) > 0
                     THEN available_units(pool[j]) ELSE 0
             most == IF n < free THEN n ELSE free
         IN UNION { { m * pool[j].cost + t : t \in Totals(pool, j + 1, n - m) } :
                    m \in 0..most }

\* C25: an incident is assigned to a kind only when no kind of strictly
\* lower cost has a unit left at that moment; the costs of successive
\* SUCCESS records never decrease, and operational_costs after k assignments
\* is the least that k units of the constructed pool can cost.
C25_CheapestFirst ==
    /\ \A r \in Assignments :
        \A k \in 1..Len(init_resources) :
            init_resources[k].cost < event_log[r].cost => LeftBefore(k, r) <= 0
    /\ \A r, q \in Assignments :
        r < q => event_log[r].cost <= event_log[q].cost
    /\ operational_costs \in Totals(init_resources, 1, Cardinality(Assignments))
    /\ \A t \in Totals(init_resources, 1, Cardinality(Assignments)) :
        operational_costs <= t

C25_Witness ==
    /\ Cardinality(Assignments) = 2
    /\ event_log[1].response = "SUCCESS" /\ event_log[2].response = "SUCCESS"
    /\ event_log[1].cost < event_log[2].cost
    /\ event_log[1].resource = init_resources[2].name
    /\ event_log[2].resource = init_resources[1].name
    /\ operational_costs = event_log[1].cost + event_log[2].cost

====
